---- MODULE Spec2Model ----
(***************************************************************************)
(* Real-time monitoring session of the exam-proctoring client.             *)
(*                                                                         *)
(*   useProctoringWebSocket  (frontend/src/integrations/supabase/types.ts) *)
(*   StudentExam             (frontend/src/pages/StudentExam.tsx)          *)
(*                                                                         *)
(* One action is one callback turn of the browser event loop: the handler  *)
(* body, the React re-render its state updates cause, and the effects      *)
(* (cleanup, then body) whose dependencies changed in that re-render.      *)
(***************************************************************************)
EXTENDS Integers, Sequences, FiniteSets, TLC

\* ---------------------------------------------------------------- bounds
\* WebSocket objects constructed in one behaviour (ids 1..MaxSockets).
MaxSockets == 6

\* Violations delivered to the exam view in one behaviour.
MaxViolations == 3

\* Longest violations list of one detection_result reply.
MaxBatch == 2

\* Tab switches, copies and pastes in one behaviour.
MaxLocalEvents == 2

\* In the exam-view runs a reconnect timeout fires only while no more than
\* this many sockets were constructed.
MaxExamSockets == 1

\* Seconds on the countdown when the questions are loaded (the template's
\* duration_minutes * 60).
MaxSeconds == 2

\* Frame messages sent in one behaviour.
MaxFrames == 2

\* In the runs about sending a reconnect timeout fires only while no more
\* than this many sockets were constructed.
MaxSendSockets == 3

\* Heartbeat pings sent in one behaviour.
MaxPings == 2

\* Violations in one exported list.
MaxRows == 2

\* ------------------------------------------------------- program constants
maxReconnectAttempts == 50

BaseDelayMs == 1000

MaxDelayMs == 30000

\* Math.pow(2, n) on doubles never overflows; saturating the exponent at 20
\* keeps 1000 * 2^n inside TLC's integers, and 2^20 is far above
\* MaxDelayMs / BaseDelayMs, so the delay is the same.
SaturationExp == 20

SockIds == 1..MaxSockets

VARIABLES
    mounted,              \* the exam view (and the hook's effects) is mounted
    enabled,              \* hook option: !!examId && !!studentData
    socks,                \* every WebSocket constructed: readyState and closure
    wsRef,                \* wsRef.current: a socket id, 0 for null
    timers,               \* pending reconnect timeouts, named by the socket whose onclose set them
    reconnectTimeoutRef,  \* reconnectTimeoutRef.current: a timer id, 0 for null
    isConnected,          \* useState(false)
    reconnectAttempts,    \* useState(0)
    toast,                \* the last toast of the hook: "success" (onopen), "error" (attempts used up)
    gc,                   \* model: closed sockets are reclaimed, so that ids are reused
    unexpCloses,          \* history: unexpected closes of the held connection since the last open
    lastDelay,            \* history: delay of the timer set by the last of them, 0 if none
    violationCount,       \* StudentExam: useState(0)
    recentWarnings,       \* StudentExam: useState<string[]>([])
    tabSwitchCount,       \* StudentExam: useState(0)
    copyPasteCount,       \* StudentExam: useState(0)
    windowFocused,        \* StudentExam: useState(true)
    onViolationRef,       \* onViolationRef.current: the state the held onViolation closure saw
    sent,                 \* browser_activity messages handed to ws.send, per violation type
    received,             \* history: violations carried by the inbound messages, in order
    handled,              \* history: violations onViolation was called with, in order
    lastBatch,            \* history: length of the last detection_result's list (-1: none yet or absent)
    focusLosses,          \* history: visibilitychange events to hidden
    clipboardEvents,      \* history: copy and paste events
    startPc,              \* where the start-up chain is: startExam().then(initializeMonitoring)
    examStatus,           \* exams.status of this attempt in the database
    streamRef,            \* streamRef.current: "none", "live", or "stopped" (tracks stopped)
    calibratedPitch,      \* StudentExam: useState(0)
    calibratedYaw,        \* StudentExam: useState(0)
    storedCalibration,    \* sessionStorage 'calibration', written by the calibration page
    waitForConnection,    \* the waitForConnection interval is armed
    elapsedTime,          \* its elapsedTime, in ms
    detectionIntervalRef, \* the frame-sampling interval is armed
    timer,                \* the countdown interval is armed
    timeRemaining,        \* StudentExam: useState, seconds
    submitPc,             \* where handleSubmit is
    answersSaved,         \* exam_answers holds this attempt's answers
    navigateTimer,        \* setTimeout(() => navigate('/'), 3000) is pending
    cameraToast,          \* toast.error("Camera access required") was shown
    frameCount,           \* frame messages handed to ws.send
    lastFrame,            \* the last of them
    lastAudio,            \* the last audio message handed to ws.send
    lastTick,             \* history: what the last sampling tick did
    pings,                \* {type: 'ping'} messages handed to ws.send
    csvInput,             \* exportToCSV: the violations it is called with
    csvOutput,            \* exportToCSV: what the call produced
    overlapPc,            \* where a second handleSubmit() call stands
    verify,               \* StudentVerify: its state, the checks shown
    verifyRun,            \* history: what the last verification run met
    lookups,              \* StudentReport: what the three queries returned
    violationsData        \* StudentReport: the list assembled from them

hookVars == <<mounted, enabled, socks, wsRef, timers, reconnectTimeoutRef,
              isConnected, reconnectAttempts, toast, gc, unexpCloses, lastDelay>>

examVars == <<violationCount, recentWarnings, tabSwitchCount, copyPasteCount,
              windowFocused, onViolationRef, sent, received, handled,
              lastBatch, focusLosses, clipboardEvents>>

sessVars == <<startPc, examStatus, streamRef, calibratedPitch, calibratedYaw,
              storedCalibration, waitForConnection, elapsedTime,
              detectionIntervalRef, timer, timeRemaining, submitPc,
              answersSaved, navigateTimer, cameraToast, frameCount, lastFrame,
              lastAudio, lastTick, pings>>

\* The report export.
csvVars == <<csvInput, csvOutput>>

\* The verification page.
verifyVars == <<verify, verifyRun>>

\* The report page.
reportVars == <<lookups, violationsData>>

\* State of the other pages and utilities, and of a second submission.
pageVars == <<csvVars, overlapPc, verifyVars, reportVars>>

vars == <<hookVars, examVars, sessVars, pageVars>>

\* Groups of the session's variables, by the code that writes them.
mediaVars == <<streamRef, calibratedPitch, calibratedYaw, storedCalibration,
               cameraToast>>

waitVars == <<waitForConnection, elapsedTime>>

countdownVars == <<timer, timeRemaining>>

submitVars == <<submitPc, answersSaved, navigateTimer>>

frameVars == <<frameCount, lastFrame, lastAudio, lastTick, pings>>

\* ------------------------------------------------------------- helpers
Min(a, b) == IF a < b THEN a ELSE b

Pow2(n) == 2 ^ Min(n, SaturationExp)

\* const delay = Math.min(1000 * Math.pow(2, reconnectAttempts), 30000);
BackoffDelay(attempts) == Min(BaseDelayMs * Pow2(attempts), MaxDelayMs)

NoSock == [st |-> "none", cap |-> 0]

Live(s) == socks[s].st \in {"connecting", "open"}

\* Sockets alive at once when ids are reused (gc).
MaxFairSockets == 5

Slots == IF gc THEN 1..MaxFairSockets ELSE SockIds

\* The hook's refs and state as one value, so that the calls of one callback
\* turn compose in program order.
Hook == [socks |-> socks, wsRef |-> wsRef, timers |-> timers,
         ref |-> reconnectTimeoutRef, isConnected |-> isConnected,
         attempts |-> reconnectAttempts]

Garbage(h, s) == h.socks[s].st = "closed" /\ s \notin h.timers /\ s # h.wsRef

\* A closed WebSocket that nothing refers to any more (its reconnect timeout
\* fired or was cleared, wsRef holds another socket) is garbage; so is the
\* handle of a timeout that is no longer pending.
Reclaim(h) ==
    [h EXCEPT !.socks = [s \in SockIds |->
                            IF Garbage(h, s) THEN NoSock ELSE h.socks[s]],
              !.ref = IF h.ref \in h.timers THEN h.ref ELSE 0]

SetHook(h0) ==
    \E h \in {IF gc THEN Reclaim(h0) ELSE h0} :
    /\ socks' = h.socks
    /\ wsRef' = h.wsRef
    /\ timers' = h.timers
    /\ reconnectTimeoutRef' = h.ref
    /\ isConnected' = h.isConnected
    /\ reconnectAttempts' = h.attempts

\* Ids a new WebSocket may take.
FreeIn(h) == {s \in Slots : h.socks[s].st = "none" \/ (gc /\ Garbage(h, s))}

\* new WebSocket(wsURL) inside connect(); `cap` is the reconnectAttempts the
\* connect closure captured (its dependency list holds reconnectAttempts).
\* connect() returns early when its captured `enabled` is false.
connect(h, en, cap) ==
    IF ~en THEN h
    ELSE LET n == CHOOSE s \in FreeIn(h) : \A t \in FreeIn(h) : s <= t
         IN  [h EXCEPT !.socks[n] = [st |-> "connecting", cap |-> cap],
                       !.wsRef = n]

\* WebSocket.close(): CONNECTING/OPEN -> CLOSING, otherwise nothing.
CloseSock(sk) == IF sk.st \in {"connecting", "open"}
                 THEN [sk EXCEPT !.st = "closing"] ELSE sk

\* disconnect(): clearTimeout(reconnectTimeoutRef.current); close and drop
\* wsRef.current; setIsConnected(false).
disconnect(h) ==
    [h EXCEPT !.timers = @ \ {h.ref},
              !.socks = IF h.wsRef = 0 THEN @
                        ELSE [@ EXCEPT ![h.wsRef] = CloseSock(@)],
              !.wsRef = 0,
              !.isConnected = FALSE]

\* The connect effect, deps [enabled, sessionId, connect, disconnect]: the
\* cleanup of the previous run, then the body with the new render's connect.
ConnectEffect(h, en) ==
    LET cleaned == disconnect(h) IN connect(cleaned, en, h.attempts)

\* A re-render after a state update: the connect effect re-runs only when
\* `connect` changed, i.e. when reconnectAttempts (or enabled) changed.
Rerender(h, oldAttempts) ==
    IF mounted /\ h.attempts # oldAttempts THEN ConnectEffect(h, enabled) ELSE h

\* Sockets the turn may construct: room for the callback's own connect() and
\* for the effect's.
Room(n) == Cardinality(FreeIn(Hook)) >= n

\* ---------------------------------------------------------------- Init
\* The exam view's first render: the useState initial values, and
\* useRef(onViolation) holding the first render's handler.
ActivityTypes == {"tab_switch", "copy_paste"}

ExamInit ==
    /\ violationCount = 0
    /\ recentWarnings = <<>>
    /\ tabSwitchCount = 0
    /\ copyPasteCount = 0
    /\ windowFocused = TRUE
    /\ onViolationRef = [count |-> 0, warnings |-> <<>>]
    /\ sent = [k \in ActivityTypes |-> 0]
    /\ received = <<>>
    /\ handled = <<>>
    /\ lastBatch = -1
    /\ focusLosses = 0
    /\ clipboardEvents = 0

\* Nothing was handed to ws.send yet.
NoMessage == [type |-> "none", calibrated_pitch |-> 0, calibrated_yaw |-> 0,
              exam_id |-> "", student_id |-> "", student_name |-> "",
              subject_code |-> ""]

\* sessionStorage 'calibration' has not been read yet.
Unread == [present |-> FALSE, pitch |-> 0, yaw |-> 0]

\* The session after the mount effect's synchronous part: studentData is set,
\* startExam's query is in flight (pc "select", or `pc` for a later start),
\* the countdown interval is armed and the questions' duration is loaded.
SessInitAt(pc) ==
    /\ startPc = pc
    /\ examStatus = "pending"
    /\ streamRef = "none"
    /\ calibratedPitch = 0
    /\ calibratedYaw = 0
    /\ storedCalibration = Unread
    /\ waitForConnection = FALSE
    /\ elapsedTime = 0
    /\ detectionIntervalRef = FALSE
    /\ timer = TRUE
    /\ timeRemaining = MaxSeconds
    /\ submitPc = "idle"
    /\ answersSaved = FALSE
    /\ navigateTimer = FALSE
    /\ cameraToast = FALSE
    /\ frameCount = 0
    /\ lastFrame = NoMessage
    /\ lastAudio = NoMessage
    /\ lastTick = "none"
    /\ pings = 0

SessInit == SessInitAt("select")

\* Nothing was exported yet.
NotCalled == [called |-> FALSE, ok |-> TRUE, lines |-> <<>>]

\* StudentVerify's first render: the useState initial values; nothing is in
\* sessionStorage 'calibration' and no navigation is scheduled.
VerifyIdle ==
    [microphoneWorking |-> FALSE, verificationStarted |-> FALSE,
     camera |-> "waiting", microphone |-> "waiting", lighting |-> "waiting",
     face |-> "waiting", progress |-> 0, calibration |-> FALSE,
     navigating |-> FALSE]

\* No verification ran yet.
NoRun == [ran |-> FALSE, granted |-> FALSE, audio |-> "none", env |-> "none",
          face_detected |-> FALSE, face_centered |-> FALSE,
          lighting_ok |-> FALSE, calibrate |-> "none"]

\* loadReportData has not assembled anything yet.
NotLoaded == [loaded |-> FALSE, rows |-> <<>>]

\* `data` of a query that has not answered, or that failed: null.
NoData == [isNull |-> TRUE, rows |-> <<>>]

NoLookups == [byExam |-> NoData, byStudent |-> NoData, byName |-> NoData]

\* Everything but the export's input and output.
OtherPagesInit ==
    /\ overlapPc = "idle"
    /\ verify = VerifyIdle
    /\ verifyRun = NoRun
    /\ lookups = NoLookups
    /\ violationsData = NotLoaded

PageInit ==
    /\ csvInput = <<>>
    /\ csvOutput = NotCalled
    /\ OtherPagesInit

\* The exam view as mounted, before anything happened.
IdleApp ==
    /\ mounted = TRUE
    /\ enabled = FALSE
    /\ socks = [s \in SockIds |-> NoSock]
    /\ wsRef = 0
    /\ timers = {}
    /\ reconnectTimeoutRef = 0
    /\ isConnected = FALSE
    /\ reconnectAttempts = 0
    /\ toast = "none"
    /\ gc = FALSE
    /\ unexpCloses = 0
    /\ lastDelay = 0
    /\ ExamInit
    /\ SessInit

Init == PageInit /\ IdleApp

\* ------------------------------------------------------------- actions
\* startExam: setExamId(exams.id) makes `enabled` true; the connect effect
\* re-runs (cleanup of the idle run, then connect()).
ExamStarted ==
    /\ mounted /\ ~enabled
    /\ startPc = "select"
    /\ Room(1)
    /\ enabled' = TRUE
    /\ \E h1 \in {disconnect(Hook)} :
       \E h2 \in {connect(h1, TRUE, reconnectAttempts)} : SetHook(h2)
    /\ startPc' = "update"
    /\ UNCHANGED <<mounted, toast, gc, unexpCloses, lastDelay, examVars, pageVars>>
    /\ UNCHANGED <<examStatus, mediaVars, waitVars, detectionIntervalRef,
                   countdownVars, submitVars, frameVars>>

\* ws.onopen: setIsConnected(true); setReconnectAttempts(0).
onopen(h) == [h EXCEPT !.isConnected = TRUE, !.attempts = 0]

OpenEvent(s) ==
    /\ socks[s].st = "connecting"
    /\ Room(IF mounted /\ reconnectAttempts # 0 THEN 1 ELSE 0)
    /\ \E h0 \in {[Hook EXCEPT !.socks[s].st = "open"]} :
       \E h1 \in {IF mounted THEN onopen(h0) ELSE h0} :
       \E h2 \in {Rerender(h1, reconnectAttempts)} : SetHook(h2)
    /\ toast' = "success"
    /\ unexpCloses' = 0
    /\ lastDelay' = 0
    /\ UNCHANGED <<mounted, enabled, gc, examVars, sessVars, pageVars>>

\* ws.onclose (preceded by ws.onerror when the connection failed; both
\* setIsConnected(false)).  `s` is the socket whose handler runs: the closure
\* holds its own `enabled` (true, or connect() had returned) and
\* reconnectAttempts (socks[s].cap).
Schedules(cap) == cap < maxReconnectAttempts

onclose(h, s) ==
    LET h1 == IF mounted THEN [h EXCEPT !.isConnected = FALSE] ELSE h
    IN  IF Schedules(h.socks[s].cap)
        THEN [h1 EXCEPT !.timers = @ \cup {s}, !.ref = s]
        ELSE h1

\* The transport closes a connecting or open socket (refused, dropped).
FailEvent(s) ==
    /\ Live(s)
    /\ \E h0 \in {[Hook EXCEPT !.socks[s].st = "closed"]} :
       \E h1 \in {onclose(h0, s)} : SetHook(h1)
    /\ toast' = IF Schedules(socks[s].cap) THEN toast ELSE "error"
    /\ unexpCloses' = IF s = wsRef THEN Min(unexpCloses + 1, maxReconnectAttempts + 1)
                       ELSE unexpCloses
    /\ lastDelay' = IF s # wsRef THEN lastDelay
                     ELSE IF Schedules(socks[s].cap) THEN BackoffDelay(socks[s].cap)
                     ELSE 0
    /\ UNCHANGED <<mounted, enabled, gc, examVars, sessVars, pageVars>>

\* The close event of a socket the client closed itself (disconnect()).
CloseEvent(s) ==
    /\ socks[s].st = "closing"
    /\ \E h0 \in {[Hook EXCEPT !.socks[s].st = "closed"]} :
       \E h1 \in {onclose(h0, s)} : SetHook(h1)
    /\ toast' = IF Schedules(socks[s].cap) THEN toast ELSE "error"
    /\ UNCHANGED <<mounted, enabled, gc, unexpCloses, lastDelay, examVars, sessVars, pageVars>>

\* The reconnect timeout set by socket t's onclose fires:
\* setReconnectAttempts(prev => prev + 1); connect();
TimerFire(t) ==
    /\ t \in timers
    /\ Room(IF mounted THEN 2 ELSE 1)
    /\ \E h0 \in {[Hook EXCEPT !.timers = @ \ {t}]} :
       \E h1 \in {IF mounted THEN [h0 EXCEPT !.attempts = @ + 1] ELSE h0} :
       \E h2 \in {connect(h1, TRUE, socks[t].cap)} :
       \E h3 \in {Rerender(h2, reconnectAttempts)} : SetHook(h3)
    /\ UNCHANGED <<mounted, enabled, toast, gc, unexpCloses, lastDelay, examVars, sessVars, pageVars>>

\* The exam view unmounts (navigate away): the connect effect's cleanup runs
\* disconnect(); the mount effect's cleanup clears the countdown, stops the
\* tracks of streamRef.current if there is one, and clears the sampling
\* interval if detectionIntervalRef.current holds one.  A pending
\* setTimeout(() => navigate('/')) is how the view is left after a submission;
\* after the view was left it has nothing more to do.
Unmount ==
    /\ mounted
    /\ mounted' = FALSE
    /\ \E h1 \in {disconnect(Hook)} : SetHook(h1)
    /\ timer' = FALSE
    /\ streamRef' = IF streamRef = "live" THEN "stopped" ELSE streamRef
    /\ detectionIntervalRef' = FALSE
    /\ UNCHANGED <<enabled, toast, gc, unexpCloses, lastDelay, examVars, pageVars>>
    /\ navigateTimer' = FALSE
    /\ UNCHANGED <<startPc, examStatus, calibratedPitch, calibratedYaw,
                   storedCalibration, cameraToast, waitVars, timeRemaining,
                   submitPc, answersSaved, frameVars>>

Next ==
    \/ ExamStarted
    \/ \E s \in SockIds : OpenEvent(s)
    \/ \E s \in SockIds : FailEvent(s)
    \/ \E s \in SockIds : CloseEvent(s)
    \/ \E t \in SockIds : TimerFire(t)
    \/ Unmount

Spec == Init /\ [][Next]_vars

\* ------------------------------------------------ the attempt bound
\* After k failed attempts the hook typically sits in this shape: the held
\* socket is the k-th effect-made one, still connecting, and the timer chain
\* started by the first client-closed socket (captured attempts 0) is pending.
\* From shape k, the held socket failing, the pending timer firing and the
\* close event of the socket that timer made lead to shape k + 1, for every
\* k < maxReconnectAttempts.
ExhaustShape(k) ==
    /\ mounted /\ enabled /\ ~isConnected
    /\ reconnectAttempts = k
    /\ wsRef # 0 /\ socks[wsRef] = [st |-> "connecting", cap |-> k]
    /\ timers = {reconnectTimeoutRef}
    /\ reconnectTimeoutRef # 0
    /\ socks[reconnectTimeoutRef] = [st |-> "closed", cap |-> 0]
    /\ \A s \in SockIds \ {wsRef} : socks[s].st \in {"none", "closed"}
    /\ unexpCloses = k
    /\ lastDelay = BackoffDelay(k - 1)
    /\ toast = "none"

\* Attempts already made when the exhaustion run starts.
StartAttempts == maxReconnectAttempts - 1

InitExhaust ==
    /\ PageInit
    /\ mounted = TRUE
    /\ enabled = TRUE
    /\ socks = [s \in SockIds |->
                   IF s = 1 THEN [st |-> "closed", cap |-> 0]
                   ELSE IF s = 2 THEN [st |-> "connecting", cap |-> StartAttempts]
                   ELSE NoSock]
    /\ wsRef = 2
    /\ timers = {1}
    /\ reconnectTimeoutRef = 1
    /\ isConnected = FALSE
    /\ reconnectAttempts = StartAttempts
    /\ toast = "none"
    /\ gc = FALSE
    /\ unexpCloses = StartAttempts
    /\ lastDelay = BackoffDelay(StartAttempts - 1)
    /\ ExamInit
    /\ SessInitAt("update")

\* The exam has started already, so ExamStarted is not among the steps.
NextExhaust ==
    \/ \E s \in SockIds : OpenEvent(s)
    \/ \E s \in SockIds : FailEvent(s)
    \/ \E s \in SockIds : CloseEvent(s)
    \/ \E t \in SockIds : TimerFire(t)
    \/ Unmount

SpecExhaust == InitExhaust /\ [][NextExhaust]_vars

\* C1: after k consecutive unexpected closes with no open in between, the
\* timer set by the k-th close has delay min(1000 * 2^(k-1), 30000) ms, and
\* every such close sets one.
C1_BackoffSequence ==
    (unexpCloses \in 1..maxReconnectAttempts)
        => lastDelay = Min(BaseDelayMs * Pow2(unexpCloses - 1), MaxDelayMs)

\* C3: once the view is torn down (disconnect() ran in the effect cleanup),
\* no reconnect timer is started or pending and no socket is opened.
C3_NoReconnectAfterDisconnect ==
    [][~mounted => /\ timers' \subseteq timers
                   /\ \A s \in SockIds : socks[s].st = "none" => socks'[s].st = "none"]_vars

\* C4: at most one socket is connecting or open at any time.
C4_SingleLiveConnection == Cardinality({s \in SockIds : Live(s)}) <= 1

\* ------------------------------------------------ fair scheduling
\* The session stays mounted, the service accepts every connection (a
\* connecting socket never fails) and may drop an established one.  Timers,
\* open events and close events are scheduled fairly, per socket.  Socket ids
\* are reused, and the run is cut where reconnectAttempts reaches
\* MaxFairAttempts.
MaxFairAttempts == 3

InitFair ==
    /\ PageInit
    /\ mounted = TRUE
    /\ enabled = FALSE
    /\ socks = [s \in SockIds |-> NoSock]
    /\ wsRef = 0
    /\ timers = {}
    /\ reconnectTimeoutRef = 0
    /\ isConnected = FALSE
    /\ reconnectAttempts = 0
    /\ toast = "none"
    /\ gc = TRUE
    /\ unexpCloses = 0
    /\ lastDelay = 0
    /\ ExamInit
    /\ SessInit

DropEvent(s) == socks[s].st = "open" /\ FailEvent(s)

FairTimerFire(t) == reconnectAttempts < MaxFairAttempts /\ TimerFire(t)

NextFair ==
    \/ ExamStarted
    \/ \E s \in SockIds : OpenEvent(s)
    \/ \E s \in SockIds : DropEvent(s)
    \/ \E s \in SockIds : CloseEvent(s)
    \/ \E t \in SockIds : FairTimerFire(t)

\* Some pending event is always served, and none waits for ever: every
\* connecting socket opens (or is closed), every closing socket gets its close
\* event, every pending timeout fires (or is cleared).
Fairness ==
    /\ WF_vars(\E s \in SockIds : OpenEvent(s))
    /\ WF_vars(\E s \in SockIds : CloseEvent(s))
    /\ WF_vars(\E t \in SockIds : FairTimerFire(t))
    /\ \A s \in 1..MaxFairSockets :
          /\ []<>(socks[s].st # "connecting")
          /\ []<>(socks[s].st # "closing")
          /\ []<>(s \notin timers)

SpecFair == InitFair /\ [][NextFair]_vars /\ Fairness

\* The model's horizon: a step is held back by a bound, not by the code.
AtHorizon == ~Room(2) \/ reconnectAttempts >= MaxFairAttempts

HeldDropped == wsRef # 0 /\ socks[wsRef].st = "closed"

ConnectedOpen == isConnected /\ wsRef # 0 /\ socks[wsRef].st = "open"

\* C5: after an unexpected close of the held connection, with the session
\* active and the service accepting connections, the client eventually holds
\* an open connection and reports itself connected.
C5_EventuallyReconnected == HeldDropped ~> (ConnectedOpen \/ AtHorizon)

\* C2: reconnectAttempts never exceeds maxReconnectAttempts, and once the
\* terminal failure was signalled (no open since) no timer is set and no
\* socket is constructed.
Exhausted == toast = "error"

C2_StopsAtBound ==
    [][/\ reconnectAttempts' <= maxReconnectAttempts
       /\ Exhausted => /\ timers' \subseteq timers
                       /\ \A s \in SockIds : socks[s].st = "none" => socks'[s].st = "none"]_vars

\* ------------------------------------------------ the exam view
\* Violations the detection service reports: one with a message, one without.
Violations ==
    {[type |-> "phone_detected", message |-> "Phone detected"],
     [type |-> "looking_away", message |-> ""]}

Batches == UNION {[1..n -> Violations] : n \in 0..MaxBatch}

\* Inbound messages after JSON.parse: `present` says whether the payload
\* (result.violations, data.data) is there at all.
InboundMessages ==
    {[type |-> "detection_result", present |-> TRUE, violations |-> vs] : vs \in Batches}
    \cup {[type |-> "detection_result", present |-> FALSE, violations |-> <<>>]}
    \cup {[type |-> "violation", present |-> TRUE, violations |-> <<v>>] : v \in Violations}
    \cup {[type |-> t, present |-> FALSE, violations |-> <<>>] :
             t \in {"violation", "audio_level", "pong", "unknown", "unparseable"}}

\* What the handler gets from a `violation` message without data: undefined,
\* which has neither a message nor a type.
NoFields == [type |-> "", message |-> ""]

\* violation.message and violation.type.replace(...) on it throw a TypeError.
Throws(v) == v = NoFields

\* violation.type.replace(/_/g, ' ')
Spaced(type) ==
    CASE type = "phone_detected" -> "phone detected"
      [] type = "looking_away" -> "looking away"
      [] OTHER -> type

\* const message = violation.message || violation.type.replace(/_/g, ' ');
DisplayMessage(v) == IF v.message # "" THEN v.message ELSE Spaced(v.type)

\* [message, ...prev].slice(0, 3)
WarningsShown == 3

FirstN(seq, n) == SubSeq(seq, 1, Min(Len(seq), n))

\* The exam view's violation state as one value, so that the handler calls of
\* one callback turn compose in program order.
ExamState == [count |-> violationCount, warnings |-> recentWarnings,
              handled |-> handled]

\* A handler that computes from the values its render saw (count + 1,
\* [message, ...warnings]) instead of from the pending state.
onViolationStale(closure, st, v) ==
    [count |-> closure.count + 1,
     warnings |-> FirstN(<<DisplayMessage(v)>> \o closure.warnings, WarningsShown),
     handled |-> Append(st.handled, v)]

\* The inline onViolation of one render.  `closure` is the state that render
\* saw; both updates are functional (prev => ...), so they start from the
\* pending state `st`, not from the closure.  setViolationCount comes first;
\* if formatting the message throws, the async handler's promise rejects and
\* setRecentWarnings is not reached.
onViolation(closure, st, v) ==
    [count |-> st.count + 1,
     warnings |-> IF Throws(v) THEN st.warnings
                  ELSE FirstN(<<DisplayMessage(v)>> \o st.warnings, WarningsShown),
     handled |-> Append(st.handled, v)]

\* A loop that stops after the first element.
forEachHeadOnly(vs, closure, st) ==
    IF vs = <<>> THEN st ELSE onViolation(closure, st, Head(vs))

\* result.violations.forEach(v => onViolationRef.current({...v, ...})): the
\* calls of one message run in one turn, with no render in between.
RECURSIVE forEach(_, _, _)
forEach(vs, closure, st) ==
    IF vs = <<>> THEN st
    ELSE forEach(Tail(vs), closure, onViolation(closure, st, Head(vs)))

\* ws.onmessage, by data.type; JSON.parse and the handlers run inside a try
\* whose catch logs the error.
onmessage(m, closure, st) ==
    CASE m.type = "unparseable" -> st
      [] m.type = "detection_result" ->
             IF m.present /\ Len(m.violations) > 0
             THEN forEach(m.violations, closure, st) ELSE st
      [] m.type = "violation" ->
             onViolation(closure, st,
                         IF m.present THEN m.violations[1] ELSE NoFields)
      [] OTHER -> st

\* useEffect(() => { onViolationRef.current = onViolation }, [onViolation]):
\* the render that follows a state update stores its own handler.
RefEffect(st) == [count |-> st.count, warnings |-> st.warnings]

\* History: the violations a message carries; a `violation` message is one
\* delivery, with or without data.
Carried(m) ==
    IF m.present THEN m.violations
    ELSE IF m.type = "violation" THEN <<NoFields>>
    ELSE <<>>

\* A message arrives on an open socket, whichever socket that is.
Deliver(s, m) ==
    /\ mounted
    /\ socks[s].st = "open"
    /\ Len(received) + Len(Carried(m)) <= MaxViolations
    /\ \E st \in {onmessage(m, onViolationRef, ExamState)} :
          /\ violationCount' = st.count
          /\ recentWarnings' = st.warnings
          /\ handled' = st.handled
          /\ onViolationRef' = RefEffect(st)
    /\ received' = received \o Carried(m)
    /\ lastBatch' = IF m.type # "detection_result" THEN lastBatch
                     ELSE IF m.present THEN Len(m.violations) ELSE -1
    /\ UNCHANGED <<hookVars, tabSwitchCount, copyPasteCount, windowFocused,
                   sent, focusLosses, clipboardEvents, sessVars, pageVars>>

\* sendBrowserActivity: ws.send only if wsRef.current?.readyState is OPEN.
sendBrowserActivity(out, violationType) ==
    IF wsRef # 0 /\ socks[wsRef].st = "open"
    THEN [out EXCEPT ![violationType] = @ + 1] ELSE out

\* The browser-activity listeners exist once examId and studentData are set.
Monitoring == mounted /\ enabled

LocalEvents == focusLosses + clipboardEvents

\* handleVisibilityChange with document.hidden: the counter always, the
\* message only if the render's wsConnected is true.
TabSwitch ==
    /\ Monitoring /\ windowFocused
    /\ LocalEvents < MaxLocalEvents
    /\ tabSwitchCount' = tabSwitchCount + 1
    /\ sent' = IF isConnected THEN sendBrowserActivity(sent, "tab_switch") ELSE sent
    /\ windowFocused' = FALSE
    /\ focusLosses' = focusLosses + 1
    /\ UNCHANGED <<hookVars, violationCount, recentWarnings, copyPasteCount,
                   onViolationRef, received, handled, lastBatch, clipboardEvents, sessVars, pageVars>>

\* handleVisibilityChange with the page visible again.
TabReturn ==
    /\ Monitoring /\ ~windowFocused
    /\ windowFocused' = TRUE
    /\ UNCHANGED <<hookVars, violationCount, recentWarnings, tabSwitchCount,
                   copyPasteCount, onViolationRef, sent, received, handled,
                   lastBatch, focusLosses, clipboardEvents, sessVars, pageVars>>

\* handleCopyPaste, for a copy or a paste event.
CopyPaste ==
    /\ Monitoring
    /\ LocalEvents < MaxLocalEvents
    /\ copyPasteCount' = copyPasteCount + 1
    /\ sent' = IF isConnected THEN sendBrowserActivity(sent, "copy_paste") ELSE sent
    /\ clipboardEvents' = clipboardEvents + 1
    /\ UNCHANGED <<hookVars, violationCount, recentWarnings, tabSwitchCount,
                   windowFocused, onViolationRef, received, handled, lastBatch,
                   focusLosses, sessVars, pageVars>>

SocketsMade == Cardinality({s \in SockIds : socks[s].st # "none"})

ExamTimerFire(t) == SocketsMade <= MaxExamSockets /\ TimerFire(t)

\* The mounted exam view: the connection's events and the view's own.
NextExam ==
    \/ ExamStarted
    \/ \E s \in SockIds : OpenEvent(s)
    \/ \E s \in SockIds : FailEvent(s)
    \/ \E s \in SockIds : CloseEvent(s)
    \/ \E t \in SockIds : ExamTimerFire(t)
    \/ \E s \in SockIds, m \in InboundMessages : Deliver(s, m)
    \/ TabSwitch
    \/ TabReturn
    \/ CopyPaste

SpecExam == Init /\ [][NextExam]_vars

\* Open, close and timer events that are pending do happen; what the student
\* and the service do is not forced.
ExamFairness ==
    /\ WF_vars(\E s \in SockIds : OpenEvent(s))
    /\ WF_vars(\E s \in SockIds : CloseEvent(s))
    /\ WF_vars(\E t \in SockIds : ExamTimerFire(t))

SpecExamFair == Init /\ [][NextExam]_vars /\ ExamFairness

\* C6: the violation count shown equals the number of violation events
\* ingested so far, remote deliveries and local browser-activity events
\* together.
C6_CountEqualsIngested ==
    violationCount = Len(received) + focusLosses + clipboardEvents

\* C7: every loss of window focus increments tabSwitchCount by one and records
\* one tab_switch event, whatever the connection state.
C7_TabSwitchRecorded ==
    /\ tabSwitchCount = focusLosses
    /\ sent["tab_switch"] = focusLosses

\* C8: a locally detected violation that was not reported is reported once
\* the connection is open (again).
Unreported ==
    \/ sent["tab_switch"] < focusLosses
    \/ sent["copy_paste"] < clipboardEvents

ExamHorizon == timers # {} /\ SocketsMade > MaxExamSockets

C8_ReportedAfterReconnect ==
    (Unreported /\ ConnectedOpen) ~> (~Unreported \/ ExamHorizon)

\* C9: a detection_result with k violations calls the handler k times, in the
\* order received, and the count grows by k; an empty or absent list changes
\* nothing.
C9_BatchHandledInOrder ==
    /\ handled = received
    /\ violationCount = Len(received)

C9_Witness ==
    /\ lastBatch = 2
    /\ Len(received) = 2 /\ received[1] # received[2]
    /\ handled = received /\ violationCount = 2

\* C10: the handler in onViolationRef is the latest render's, and after N
\* deliveries, interleaved with other updates and re-renders, the count has
\* grown by N.
C10_LatestHandlerNoLostUpdate ==
    /\ onViolationRef = [count |-> violationCount, warnings |-> recentWarnings]
    /\ violationCount = Len(received)

\* Two deliveries in separate turns, with a local event's re-render as well.
C10_Witness ==
    /\ Len(received) = 2 /\ lastBatch = 1
    /\ tabSwitchCount + copyPasteCount > 0
    /\ violationCount = 2
    /\ onViolationRef.count = 2

\* ------------------------------------------------ the exam session
\* The attempt and the student of this session (sessionStorage 'studentData',
\* exams.id).
Null == ""

ExamIdValue == "exam-1"

Student == [id |-> "stu-1", name |-> "Ada", subjectCode |-> "CS101"]

\* What the closures of one render see.  The hook gets examId || '',
\* studentData?.id || '', studentData?.name || '', studentData?.subjectCode || ''.
RenderOf(exam, student, connected, pitch, yaw) ==
    [examId |-> exam,
     hasStudentData |-> student,
     wsConnected |-> connected,
     calibratedPitch |-> pitch,
     calibratedYaw |-> yaw,
     studentId |-> IF student THEN Student.id ELSE "",
     studentName |-> IF student THEN Student.name ELSE "",
     subjectCode |-> IF student THEN Student.subjectCode ELSE ""]

\* The first render: the mount effect (deps [navigate]) runs once, so the
\* countdown callback, initializeMonitoring, startAIMonitoring and the sendFrame
\* and sendAudioLevel they call are this render's.
MountRender == RenderOf(Null, FALSE, FALSE, 0, 0)

\* The latest render: what a handler attached by JSX (the Submit button) sees.
CurrentRender ==
    RenderOf(IF enabled THEN ExamIdValue ELSE Null, TRUE, isConnected,
             calibratedPitch, calibratedYaw)

\* studentNameRef.current, set in the mount effect.
studentNameRef == Student.name

\* Values sessionStorage 'calibration' may hold when it is read.
Calibrations ==
    {[present |-> FALSE, pitch |-> 0, yaw |-> 0],
     [present |-> TRUE, pitch |-> 7, yaw |-> -4]}

\* -------- start-up: startExam(parsedData).then(initializeMonitoring)
\* startExam's query fails: the catch logs, examId stays null, and the chain
\* goes on to initializeMonitoring.
StartExamFailed ==
    /\ startPc = "select"
    /\ startPc' = "media"
    /\ UNCHANGED <<hookVars, examVars, examStatus, mediaVars, waitVars,
                   detectionIntervalRef, countdownVars, submitVars, frameVars, pageVars>>

\* The query answers after the view was left: setExamId is without effect.
ExamSelectedUnmounted ==
    /\ ~mounted
    /\ startPc = "select"
    /\ startPc' = "update"
    /\ UNCHANGED <<hookVars, examVars, examStatus, mediaVars, waitVars,
                   detectionIntervalRef, countdownVars, submitVars, frameVars, pageVars>>

\* update({status: 'in_progress'}) answers (an error is returned, not thrown);
\* then initializeMonitoring calls getUserMedia.
StatusUpdated(ok) ==
    /\ startPc = "update"
    /\ examStatus' = IF ok THEN "in_progress" ELSE examStatus
    /\ startPc' = "media"
    /\ UNCHANGED <<hookVars, examVars, mediaVars, waitVars,
                   detectionIntervalRef, countdownVars, submitVars, frameVars, pageVars>>

\* getUserMedia resolves: streamRef.current = stream; the calibration is read
\* from sessionStorage; the waitForConnection interval is armed.
MediaGranted(c) ==
    /\ startPc = "media"
    /\ streamRef' = "live"
    /\ storedCalibration' = c
    /\ calibratedPitch' = IF mounted /\ c.present THEN c.pitch ELSE calibratedPitch
    /\ calibratedYaw' = IF mounted /\ c.present THEN c.yaw ELSE calibratedYaw
    /\ waitForConnection' = TRUE
    /\ elapsedTime' = 0
    /\ startPc' = "waiting"
    /\ UNCHANGED <<hookVars, examVars, examStatus, cameraToast,
                   detectionIntervalRef, countdownVars, submitVars, frameVars, pageVars>>

\* getUserMedia rejects: console.error and toast.error("Camera access required").
MediaDenied ==
    /\ startPc = "media"
    /\ cameraToast' = TRUE
    /\ startPc' = "denied"
    /\ UNCHANGED <<hookVars, examVars, examStatus, streamRef, calibratedPitch,
                   calibratedYaw, storedCalibration, waitVars,
                   detectionIntervalRef, countdownVars, submitVars, frameVars, pageVars>>

maxWaitTime == 10000

checkInterval == 100

\* The condition one waitForConnection check evaluates, in render r.
ConnectionReady(r) == r.wsConnected /\ r.examId # Null /\ r.hasStudentData

\* One check of waitForConnection, in the closure of the mount render:
\* startAIMonitoring() arms the sampling interval.
WaitTick ==
    /\ waitForConnection
    /\ elapsedTime' = elapsedTime + checkInterval
    /\ \E start \in {ConnectionReady(MountRender) \/ elapsedTime' >= maxWaitTime} :
          /\ waitForConnection' = ~start
          /\ detectionIntervalRef' = (start \/ detectionIntervalRef)
          /\ startPc' = IF start THEN "sampling" ELSE startPc
    /\ UNCHANGED <<hookVars, examVars, examStatus, mediaVars, countdownVars,
                   submitVars, frameVars, pageVars>>

\* -------- sampling: the interval armed by startAIMonitoring
VideoWidths == {0, 640}

VideoHeights == {0, 480}

\* A send that does not look at readyState.
ReadyStateIgnored == wsRef # 0

\* wsRef.current?.readyState === WebSocket.OPEN
ReadyStateOpen == wsRef # 0 /\ socks[wsRef].st = "open"

\* A tick that goes on to drawImage whatever the dimensions are.
CaptureUnchecked(w, h) ==
    IF ~mounted \/ streamRef = "none" THEN "no_video" ELSE "captured"

\* What one tick does before it sends: no video element or no stream, the
\* video not ready (0x0), or a frame drawn and encoded.
CaptureOutcome(w, h) ==
    IF ~mounted \/ streamRef = "none" THEN "no_video"
    ELSE IF w = 0 \/ h = 0 THEN "not_ready"
    ELSE "captured"

\* The payload of sendFrame(snapshot, level, overrideStudentName) in render r.
FramePayload(r, overrideStudentName) ==
    [type |-> "frame",
     calibrated_pitch |-> r.calibratedPitch,
     calibrated_yaw |-> r.calibratedYaw,
     exam_id |-> r.examId,
     student_id |-> r.studentId,
     student_name |-> IF overrideStudentName # "" THEN overrideStudentName
                      ELSE r.studentName,
     subject_code |-> r.subjectCode]

\* The payload of sendAudioLevel(level) in render r (it has no calibration).
AudioPayload(r) ==
    [type |-> "audio",
     calibrated_pitch |-> 0,
     calibrated_yaw |-> 0,
     exam_id |-> r.examId,
     student_id |-> r.studentId,
     student_name |-> r.studentName,
     subject_code |-> r.subjectCode]

\* One tick of the sampling interval, for a video of w x h: the closure is
\* the mount render's, the name comes from studentNameRef.
SamplerTick(w, h) ==
    /\ detectionIntervalRef
    /\ frameCount < MaxFrames
    /\ \E outcome \in {CaptureOutcome(w, h)} :
       \E transmit \in {outcome = "captured" /\ ReadyStateOpen} :
          /\ frameCount' = IF transmit THEN frameCount + 1 ELSE frameCount
          /\ lastFrame' = IF transmit THEN FramePayload(MountRender, studentNameRef)
                          ELSE lastFrame
          /\ lastAudio' = IF transmit THEN AudioPayload(MountRender) ELSE lastAudio
          /\ lastTick' = IF transmit THEN "sent"
                         ELSE IF outcome = "captured" THEN "not_open"
                         ELSE IF outcome = "not_ready" /\ wsRef # 0
                                 /\ socks[wsRef].st = "open"
                              THEN "not_ready_while_open"
                         ELSE outcome
    /\ UNCHANGED <<hookVars, examVars, startPc, examStatus, mediaVars, waitVars,
                   detectionIntervalRef, countdownVars, submitVars, pings, pageVars>>

\* -------- countdown and submission
\* if (!examId || !studentData) return;
Proceeds(r) == r.examId # Null /\ r.hasStudentData

\* handleSubmit() of render r: where the submission stands afterwards.  One
\* submission is followed; a call while one is under way changes nothing here.
handleSubmit(r, pc) == IF pc = "idle" /\ Proceeds(r) THEN "saving" ELSE pc

\* One tick of the countdown interval (the mount render's closure): at
\* prev <= 1 it clears itself and calls handleSubmit().
CountdownTick ==
    /\ timer
    /\ \E expired \in {timeRemaining <= 1} :
          /\ timeRemaining' = IF expired THEN 0 ELSE timeRemaining - 1
          /\ timer' = ~expired
          /\ submitPc' = IF expired THEN handleSubmit(MountRender, submitPc)
                         ELSE submitPc
    /\ UNCHANGED <<hookVars, examVars, startPc, examStatus, mediaVars, waitVars,
                   detectionIntervalRef, answersSaved, navigateTimer, frameVars, pageVars>>

\* The student presses Submit.
SubmitClick ==
    /\ mounted
    /\ submitPc = "idle"
    /\ Proceeds(CurrentRender)
    /\ submitPc' = handleSubmit(CurrentRender, submitPc)
    /\ UNCHANGED <<hookVars, examVars, startPc, examStatus, mediaVars, waitVars,
                   detectionIntervalRef, countdownVars, answersSaved,
                   navigateTimer, frameVars, pageVars>>

\* 1. the upserts of the answers resolve.
AnswersSaved ==
    /\ submitPc = "saving"
    /\ answersSaved' = TRUE
    /\ submitPc' = "finalizing"
    /\ UNCHANGED <<hookVars, examVars, startPc, examStatus, mediaVars, waitVars,
                   detectionIntervalRef, countdownVars, navigateTimer, frameVars, pageVars>>

\* 2. update({status: 'completed'}) resolves.
Finalized ==
    /\ submitPc = "finalizing"
    /\ examStatus' = "completed"
    /\ submitPc' = "grading"
    /\ UNCHANGED <<hookVars, examVars, startPc, mediaVars, waitVars,
                   detectionIntervalRef, countdownVars, answersSaved,
                   navigateTimer, frameVars, pageVars>>

\* 3. the grading request answers; then the tracks of streamRef.current are
\* stopped and navigate('/') is scheduled.
Graded ==
    /\ submitPc = "grading"
    /\ streamRef' = IF streamRef = "live" THEN "stopped" ELSE streamRef
    /\ navigateTimer' = TRUE
    /\ submitPc' = "done"
    /\ UNCHANGED <<hookVars, examVars, startPc, examStatus, calibratedPitch,
                   calibratedYaw, storedCalibration, cameraToast, waitVars,
                   detectionIntervalRef, countdownVars, answersSaved, frameVars, pageVars>>

\* An awaited request throws: the catch shows "Failed to submit".
SubmitFailed ==
    /\ submitPc \in {"saving", "finalizing", "grading"}
    /\ submitPc' = "failed"
    /\ UNCHANGED <<hookVars, examVars, startPc, examStatus, mediaVars, waitVars,
                   detectionIntervalRef, countdownVars, answersSaved,
                   navigateTimer, frameVars, pageVars>>

\* -------- a second submission, and the back button
\* The End Exam button stays enabled after a click: a click while a
\* handleSubmit() call is under way, or after it, starts another call.
SubmitAgain ==
    /\ mounted
    /\ submitPc # "idle"
    /\ overlapPc = "idle"
    /\ Proceeds(CurrentRender)
    /\ overlapPc' = handleSubmit(CurrentRender, overlapPc)
    /\ UNCHANGED <<hookVars, examVars, sessVars, csvVars, verifyVars, reportVars>>

\* 1. the second call's upserts resolve.
OverlapSaved ==
    /\ overlapPc = "saving"
    /\ answersSaved' = TRUE
    /\ overlapPc' = "finalizing"
    /\ UNCHANGED <<hookVars, examVars, startPc, examStatus, mediaVars, waitVars,
                   detectionIntervalRef, countdownVars, submitPc, navigateTimer,
                   frameVars, csvVars, verifyVars, reportVars>>

\* 2. its update({status: 'completed'}) resolves.
OverlapFinalized ==
    /\ overlapPc = "finalizing"
    /\ examStatus' = "completed"
    /\ overlapPc' = "grading"
    /\ UNCHANGED <<hookVars, examVars, startPc, mediaVars, waitVars,
                   detectionIntervalRef, countdownVars, submitVars, frameVars,
                   csvVars, verifyVars, reportVars>>

\* 3. its grading request answers.
OverlapGraded ==
    /\ overlapPc = "grading"
    /\ streamRef' = IF streamRef = "live" THEN "stopped" ELSE streamRef
    /\ navigateTimer' = TRUE
    /\ overlapPc' = "done"
    /\ UNCHANGED <<hookVars, examVars, startPc, examStatus, calibratedPitch,
                   calibratedYaw, storedCalibration, cameraToast, waitVars,
                   detectionIntervalRef, countdownVars, submitPc, answersSaved,
                   frameVars, csvVars, verifyVars, reportVars>>

OverlapFailed ==
    /\ overlapPc \in {"saving", "finalizing", "grading"}
    /\ overlapPc' = "failed"
    /\ UNCHANGED <<hookVars, examVars, sessVars, csvVars, verifyVars, reportVars>>

\* popstate: handleBackButton, defined in the mount effect, so `examId` and
\* `studentData` are the mount render's.  It stops the tracks of
\* streamRef.current, clears the sampling interval, saves the answers and
\* marks the attempt completed if (examId && studentData), and then schedules
\* navigate('/').
handleBackButton ==
    /\ mounted
    /\ streamRef' = IF streamRef = "live" THEN "stopped" ELSE streamRef
    /\ detectionIntervalRef' = FALSE
    /\ \E saves \in {Proceeds(MountRender)} :
          /\ answersSaved' = (answersSaved \/ saves)
          /\ examStatus' = IF saves THEN "completed" ELSE examStatus
    /\ navigateTimer' = TRUE
    /\ UNCHANGED <<hookVars, examVars, startPc, calibratedPitch, calibratedYaw,
                   storedCalibration, cameraToast, waitVars, countdownVars,
                   submitPc, frameVars, pageVars>>

\* -------- the runs
\* Start-up: from the mounted view to the sampling interval, with the
\* connection's events, the countdown, and the view being left at any moment.
NextStartup ==
    \/ ExamStarted
    \/ StartExamFailed
    \/ ExamSelectedUnmounted
    \/ \E ok \in BOOLEAN : StatusUpdated(ok)
    \/ \E c \in Calibrations : MediaGranted(c)
    \/ MediaDenied
    \/ WaitTick
    \/ CountdownTick
    \/ \E s \in SockIds : OpenEvent(s)
    \/ \E s \in SockIds : FailEvent(s)
    \/ \E s \in SockIds : CloseEvent(s)
    \/ \E t \in SockIds : ExamTimerFire(t)
    \/ Unmount

SpecStartup == Init /\ [][NextStartup]_vars

\* Where start-up arrives when nothing else happens: the exam is in progress,
\* the media is live, calibration c was read, the wait for the connection ran
\* its full time and armed the sampling interval; the first socket is still
\* connecting.
MonitoringShape(c) ==
    /\ mounted = TRUE
    /\ enabled = TRUE
    /\ socks = [s \in SockIds |->
                   IF s = 1 THEN [st |-> "connecting", cap |-> 0] ELSE NoSock]
    /\ wsRef = 1
    /\ timers = {}
    /\ reconnectTimeoutRef = 0
    /\ isConnected = FALSE
    /\ reconnectAttempts = 0
    /\ toast = "none"
    /\ unexpCloses = 0
    /\ lastDelay = 0
    /\ startPc = "sampling"
    /\ examStatus = "in_progress"
    /\ streamRef = "live"
    /\ storedCalibration = c
    /\ calibratedPitch = c.pitch
    /\ calibratedYaw = c.yaw
    /\ waitForConnection = FALSE
    /\ elapsedTime = maxWaitTime
    /\ detectionIntervalRef = TRUE
    /\ timer = TRUE
    /\ timeRemaining = MaxSeconds
    /\ submitPc = "idle"
    /\ answersSaved = FALSE
    /\ navigateTimer = FALSE
    /\ cameraToast = FALSE
    /\ frameCount = 0
    /\ lastFrame = NoMessage
    /\ lastAudio = NoMessage
    /\ lastTick = "none"
    /\ pings = 0

InitMonitoring ==
    /\ PageInit
    /\ gc = FALSE
    /\ ExamInit
    /\ \E c \in Calibrations : MonitoringShape(c)

\* Monitoring: sampling, the connection's events, the countdown, a submission
\* and the view being left.
NextMonitoring ==
    \/ \E w \in VideoWidths, h \in VideoHeights : SamplerTick(w, h)
    \/ CountdownTick
    \/ SubmitClick
    \/ AnswersSaved
    \/ Finalized
    \/ Graded
    \/ SubmitFailed
    \/ \E s \in SockIds : OpenEvent(s)
    \/ \E s \in SockIds : FailEvent(s)
    \/ \E s \in SockIds : CloseEvent(s)
    \/ \E t \in SockIds : ExamTimerFire(t)
    \/ Unmount

SpecMonitoring == InitMonitoring /\ [][NextMonitoring]_vars

\* The ways an attempt is ended: the countdown, End Exam pressed once or
\* twice, the back button, and the view being left.
NextSubmit ==
    \/ CountdownTick
    \/ SubmitClick
    \/ AnswersSaved
    \/ Finalized
    \/ Graded
    \/ SubmitFailed
    \/ SubmitAgain
    \/ OverlapSaved
    \/ OverlapFinalized
    \/ OverlapGraded
    \/ OverlapFailed
    \/ handleBackButton
    \/ \E w \in VideoWidths, h \in VideoHeights : SamplerTick(w, h)
    \/ Unmount

SpecSubmit == InitMonitoring /\ [][NextSubmit]_vars

SendTimerFire(t) == SocketsMade <= MaxSendSockets /\ TimerFire(t)

\* Monitoring, with copies and pastes instead of the countdown and the
\* submission, and with more reconnections.
NextSend ==
    \/ \E w \in VideoWidths, h \in VideoHeights : SamplerTick(w, h)
    \/ CopyPaste
    \/ \E s \in SockIds : OpenEvent(s)
    \/ \E s \in SockIds : FailEvent(s)
    \/ \E s \in SockIds : CloseEvent(s)
    \/ \E t \in SockIds : SendTimerFire(t)
    \/ Unmount

SpecSend == InitMonitoring /\ [][NextSend]_vars

\* ------------------------------------------------ claims on the session
\* A step in which sendFrame and sendAudioLevel (a tick that captured a frame)
\* or sendBrowserActivity (a tab switch, copy or paste in a render that is
\* connected) is called.
SendCalled ==
    \/ /\ mounted /\ streamRef # "none"
       /\ \E w \in VideoWidths \ {0}, h \in VideoHeights \ {0} : SamplerTick(w, h)
    \/ isConnected /\ TabSwitch
    \/ isConnected /\ CopyPaste

\* C11: a send function called while the held socket is not open transmits
\* nothing and leaves the connection state and reconnectAttempts as they are.
C11_SendWhileNotOpen ==
    [][((wsRef = 0 \/ socks[wsRef].st # "open") /\ SendCalled)
          => /\ frameCount' = frameCount
             /\ lastFrame' = lastFrame
             /\ lastAudio' = lastAudio
             /\ sent' = sent
             /\ socks' = socks /\ wsRef' = wsRef /\ timers' = timers
             /\ isConnected' = isConnected
             /\ reconnectAttempts' = reconnectAttempts]_vars

\* A tick captured a frame while the held socket was not open, and a copy or
\* paste happened in a connected render whose socket was not open.
C11_Witness ==
    /\ lastTick = "not_open"
    /\ frameCount = 0
    /\ clipboardEvents > 0
    /\ sent = [k \in ActivityTypes |-> 0]
    /\ isConnected
    /\ wsRef # 0 /\ socks[wsRef].st # "open"

\* C12: when the countdown reaches zero during monitoring the submission
\* starts (answers persisted, attempt completed) and the countdown is cleared.
C12_ExpirySubmits ==
    [][(enabled /\ timeRemaining <= 1 /\ CountdownTick)
          => (submitPc' # "idle" /\ timer' = FALSE)]_vars

\* C13: once the submission has released the camera and microphone, no
\* further frame is sent.
C13_NoFrameAfterRelease ==
    [][(submitPc = "done" /\ streamRef = "stopped")
          => frameCount' = frameCount]_vars

\* C16: every frame message carries the calibration the session established
\* at start-up.
C16_FrameCarriesCalibration ==
    frameCount > 0 => /\ lastFrame.calibrated_pitch = calibratedPitch
                      /\ lastFrame.calibrated_yaw = calibratedYaw

\* C17: every frame and audio message carries the exam id, student id,
\* student name and subject code of the running session.
TaggedWithSession(msg) ==
    /\ msg.exam_id = ExamIdValue
    /\ msg.student_id = Student.id
    /\ msg.student_name = Student.name
    /\ msg.subject_code = Student.subjectCode

C17_MessagesCarrySession ==
    frameCount > 0 => (TaggedWithSession(lastFrame) /\ TaggedWithSession(lastAudio))

\* C18: a sampling tick on a video of zero width or height sends nothing and
\* leaves the sampling interval armed.
C18_ZeroDimensionSkipped ==
    [][(\E w \in VideoWidths, h \in VideoHeights :
           (w = 0 \/ h = 0) /\ SamplerTick(w, h))
          => /\ frameCount' = frameCount
             /\ lastFrame' = lastFrame
             /\ lastAudio' = lastAudio
             /\ detectionIntervalRef']_vars

\* A tick found the video not ready while the held socket was open, so that a
\* frame would have gone out.
C18_Witness ==
    /\ lastTick = "not_ready_while_open"
    /\ frameCount = 0
    /\ detectionIntervalRef

\* C14: after the view was left no interval of the session is armed and no
\* media is live.
C14_QuietAfterTeardown ==
    ~mounted => /\ ~waitForConnection
                /\ ~detectionIntervalRef
                /\ ~timer
                /\ streamRef # "live"

\* C15: after a failed acquisition the failure is shown, no countdown and no
\* sampling runs, and the attempt is not in progress.
C15_DeniedDoesNotProceed ==
    startPc = "denied" => /\ cameraToast
                          /\ ~timer
                          /\ ~detectionIntervalRef
                          /\ examStatus # "in_progress"

\* C19: the check of waitForConnection that finds the connection open starts
\* sampling, and the wait never exceeds maxWaitTime.
C19_StartsWhenOpen ==
    [][(WaitTick /\ ConnectedOpen /\ enabled)
          => (detectionIntervalRef' /\ ~waitForConnection')]_vars

\* C20: an inbound message of unknown type, one that cannot be parsed, or one
\* without its payload invokes no violation handler and changes no counter and
\* no connection state.
Ignorable ==
    {m \in InboundMessages :
        \/ m.type \in {"unknown", "unparseable"}
        \/ m.type \in {"detection_result", "violation"} /\ ~m.present}

C20_MalformedIgnored ==
    [][(\E s \in SockIds, m \in Ignorable : Deliver(s, m))
          => /\ violationCount' = violationCount
             /\ recentWarnings' = recentWarnings
             /\ handled' = handled
             /\ socks' = socks /\ wsRef' = wsRef
             /\ isConnected' = isConnected
             /\ reconnectAttempts' = reconnectAttempts]_vars

\* ------------------------------------------------ heartbeat
\* The heartbeat effect (deps [isConnected]) keeps its 30 s interval armed
\* exactly while the rendered isConnected is true.
heartbeatPeriodMs == 30000

HeartbeatArmed == mounted /\ isConnected

\* A heartbeat that does not look at readyState.
HeartbeatUnchecked == wsRef # 0

\* if (wsRef.current?.readyState === WebSocket.OPEN) in the interval callback.
HeartbeatOpen == wsRef # 0 /\ socks[wsRef].st = "open"

\* One tick of the heartbeat interval: a ping if the held socket is open.
\* Nothing waits for the pong.
HeartbeatTick ==
    /\ HeartbeatArmed
    /\ pings < MaxPings
    /\ pings' = IF HeartbeatOpen THEN pings + 1 ELSE pings
    /\ UNCHANGED <<hookVars, examVars, startPc, examStatus, mediaVars, waitVars,
                   detectionIntervalRef, countdownVars, submitVars, frameCount,
                   lastFrame, lastAudio, lastTick, pageVars>>

\* The connection with its heartbeat, from the mounted view on.
NextHeartbeat ==
    \/ ExamStarted
    \/ \E s \in SockIds : OpenEvent(s)
    \/ \E s \in SockIds : FailEvent(s)
    \/ \E s \in SockIds : CloseEvent(s)
    \/ \E t \in SockIds : SendTimerFire(t)
    \/ HeartbeatTick
    \/ Unmount

SpecHeartbeat == Init /\ [][NextHeartbeat]_vars

\* C21: a ping is sent only on an open held socket; a heartbeat tick, answered
\* or not, changes nothing of the connection; a reconnect timeout is set only
\* by the close event of a socket.
C21_HeartbeatOnlyPings ==
    [][/\ HeartbeatTick
          => /\ pings' # pings => (wsRef # 0 /\ socks[wsRef].st = "open")
             /\ socks' = socks /\ wsRef' = wsRef /\ timers' = timers
             /\ isConnected' = isConnected
             /\ reconnectAttempts' = reconnectAttempts
       /\ ~(timers' \subseteq timers)
          => \E s \in SockIds : FailEvent(s) \/ CloseEvent(s)]_vars

\* Two pings went out, none was answered, and the connection is as it was.
C21_Witness ==
    /\ pings = 2
    /\ isConnected /\ wsRef # 0 /\ socks[wsRef].st = "open"
    /\ timers = {}

\* ------------------------------------------------ report export
\* PDFGenerator.exportToCSV (frontend/src/utils/aiDetection.ts).  A missing
\* (undefined) string field is Missing; a missing confidence is 0, which the
\* code treats like 0 itself.
Missing == ""

headers ==
    <<"Timestamp", "Student ID", "Student Name", "Subject Name", "Subject Code",
      "Violation Type", "Severity", "Details", "Confidence",
      "Evidence Image URL", "Has Evidence">>

NoDetails ==
    [present |-> FALSE, student_id |-> Missing, studentId |-> Missing,
     student_name |-> Missing, studentName |-> Missing,
     subject_name |-> Missing, subjectName |-> Missing,
     subject_code |-> Missing, subjectCode |-> Missing,
     message |-> Missing, confidence |-> 0]

\* The `details` objects of the inputs: none, empty, snake-case keys with a
\* message and a confidence, camel-case keys, a message only.
DetailsValues ==
    {NoDetails,
     [NoDetails EXCEPT !.present = TRUE],
     [NoDetails EXCEPT !.present = TRUE, !.student_id = "stu-1",
                       !.student_name = "Ada", !.subject_name = "Algorithms",
                       !.subject_code = "CS101", !.message = "Phone detected",
                       !.confidence = 90],
     [NoDetails EXCEPT !.present = TRUE, !.studentId = "stu-1",
                       !.studentName = "Ada", !.subjectName = "Algorithms",
                       !.subjectCode = "CS101"],
     [NoDetails EXCEPT !.present = TRUE, !.message = "Looking away"]}

Timestamps == {"2025-10-20T10:00:00Z", "2025-10-20T10:05:00Z"}

\* Records that satisfy the ViolationData interface (violation_type, severity
\* and timestamp are required; image_url and details are optional).
TypedViolations ==
    [timestamp : Timestamps, violation_type : {"phone_detected"},
     severity : {"high"}, image_url : {Missing, "https://img/1.jpg"},
     details : DetailsValues]

\* Records as the database may return them, any field missing.
LooseViolations ==
    [timestamp : {Missing, "2025-10-20T10:00:00Z"},
     violation_type : {Missing, "phone_detected"},
     severity : {Missing, "high"},
     image_url : {Missing, "https://img/1.jpg"},
     details : DetailsValues]

ListsOf(S) == UNION {[1..n -> S] : n \in 0..MaxRows}

\* a || b || c: the first truthy operand, or the last.
Or3(a, b, c) == IF a # Missing THEN a ELSE IF b # Missing THEN b ELSE c

\* new Date(t).toLocaleString()
toLocaleString(t) ==
    CASE t = "2025-10-20T10:00:00Z" -> "10/20/2025, 10:00:00 AM"
      [] t = "2025-10-20T10:05:00Z" -> "10/20/2025, 10:05:00 AM"
      [] OTHER -> "Invalid Date"

\* String(cell) of a string or of undefined.
StringOf(x) == IF x = Missing THEN "undefined" ELSE x

\* `${(confidence * 100).toFixed(1)}%`, the confidence held in percent.
Percent(c) == ToString(c) \o ".0%"

\* The cells of one violation.  v.details?.x is undefined when details is.
Row(v) ==
    <<toLocaleString(v.timestamp),
      Or3(v.details.student_id, v.details.studentId, "ID Not Available"),
      Or3(v.details.student_name, v.details.studentName, "Name Not Available"),
      Or3(v.details.subject_name, v.details.subjectName, "Subject Not Available"),
      Or3(v.details.subject_code, v.details.subjectCode, "Code Not Available"),
      Spaced(v.violation_type),
      StringOf(v.severity),
      Or3(v.details.message, Missing, "No details available"),
      IF v.details.confidence # 0 THEN Percent(v.details.confidence) ELSE "N/A",
      Or3(v.image_url, Missing, "No evidence captured"),
      IF v.image_url # Missing THEN "Yes" ELSE "No">>

\* The rows in reverse input order.
RowsReversed(vs) == [i \in 1..Len(vs) |-> Row(vs[Len(vs) + 1 - i])]

\* violations.map(v => [...])
RowsOf(vs) == [i \in 1..Len(vs) |-> Row(vs[i])]

\* `"${String(cell).replace(/"/g, '""')}"`; no cell of the inputs holds a quote.
Quoted(cell) == "\"" \o cell \o "\""

\* v.violation_type.replace on undefined throws a TypeError.
RowThrows(v) == v.violation_type = Missing

Thrown == [called |-> TRUE, ok |-> FALSE, lines |-> <<>>]

\* The document as its lines, each line as its comma-separated cells.
exportToCSV(vs) ==
    IF \E i \in 1..Len(vs) : RowThrows(vs[i]) THEN Thrown
    ELSE [called |-> TRUE, ok |-> TRUE,
          lines |-> <<headers>> \o
                    [i \in 1..Len(vs) |->
                        [j \in 1..Len(RowsOf(vs)[i]) |-> Quoted(RowsOf(vs)[i][j])]]]

ExportCSV ==
    /\ ~csvOutput.called
    /\ csvOutput' = exportToCSV(csvInput)
    /\ UNCHANGED <<hookVars, examVars, sessVars, csvInput, overlapPc,
                   verifyVars, reportVars>>

\* The export of a well-typed list.
InitCSV ==
    /\ csvInput \in ListsOf(TypedViolations)
    /\ csvOutput = NotCalled
    /\ OtherPagesInit
    /\ IdleApp

SpecCSV == InitCSV /\ [][ExportCSV]_vars

\* The export of a list with missing fields.
InitCSVLoose ==
    /\ csvInput \in ListsOf(LooseViolations)
    /\ csvOutput = NotCalled
    /\ OtherPagesInit
    /\ IdleApp

SpecCSVLoose == InitCSVLoose /\ [][ExportCSV]_vars

Columns == Len(headers)

\* C22: the export is the header line followed by one line per violation, in
\* input order, each with the header's 11 columns; the header alone for an
\* empty list.
C22_OneRowPerViolation ==
    csvOutput.called
       => /\ csvOutput.ok
          /\ Len(csvOutput.lines) = Len(csvInput) + 1
          /\ csvOutput.lines[1] = headers
          /\ Columns = 11
          /\ \A i \in 1..Len(csvInput) :
                /\ Len(csvOutput.lines[i + 1]) = Columns
                /\ csvOutput.lines[i + 1][1]
                      = Quoted(toLocaleString(csvInput[i].timestamp))
                /\ csvOutput.lines[i + 1][10]
                      = Quoted(Or3(csvInput[i].image_url, Missing, "No evidence captured"))

\* Two violations with different timestamps were exported.
C22_Witness ==
    /\ csvOutput.called /\ csvOutput.ok
    /\ Len(csvInput) = 2
    /\ csvInput[1].timestamp # csvInput[2].timestamp
    /\ Len(csvOutput.lines) = 3

\* C23: whatever field of a violation is missing, the export completes and no
\* cell is empty or the text undefined.
C23_MissingFieldsPlaceholder ==
    csvOutput.called
       => /\ csvOutput.ok
          /\ \A i \in 2..Len(csvOutput.lines) :
                \A j \in 1..Len(csvOutput.lines[i]) :
                   csvOutput.lines[i][j] \notin {Quoted(""), Quoted("undefined")}

\* ------------------------------------------- connection kept once open
\* C24: while the view is mounted and the session enabled, no step takes a
\* socket that is open, or that opens in this very step, to CLOSING: only the
\* transport ends an open connection.
C24_OpenNotClosedByClient ==
    [][(mounted' /\ enabled) =>
         \A s \in SockIds :
            /\ socks[s].st = "open" => socks'[s].st # "closing"
            /\ OpenEvent(s) => socks'[s].st = "open"]_vars

\* The socket wsRef.current holds is OPEN.
HeldOpen == wsRef # 0 /\ socks[wsRef].st = "open"

\* C25: while the exam view is mounted, isConnected is true exactly when the
\* held socket is open; close events of superseded or client-closed sockets
\* do not clear it.
C25_FlagMatchesHeldSocket == mounted => (isConnected <=> HeldOpen)


\* ------------------------------------------------ ending the attempt
\* A handleSubmit() call that got past its upserts.
Persisted(pc) == pc \in {"finalizing", "grading", "done"}

\* C26: the attempt is persisted at most once: two handleSubmit() calls never
\* both get past saving the answers.
C26_SubmittedOnce == ~(Persisted(submitPc) /\ Persisted(overlapPc))

\* C27: a back-button press while the exam is in progress leaves the answers
\* saved, the attempt completed, the tracks stopped and the sampling interval
\* cleared, all before navigate('/') is scheduled.
C27_BackButtonSubmits ==
    [][(handleBackButton /\ examStatus = "in_progress")
          => /\ answersSaved' /\ examStatus' = "completed"
             /\ streamRef' # "live" /\ ~detectionIntervalRef']_vars


\* ------------------------------------------------ verification page
\* What one verification run meets: getUserMedia granted or denied; the
\* 3-second microphone test hearing something, hearing nothing, or throwing;
\* /api/environment-check answering with its three flags or failing; and,
\* asked only when a face was detected, /api/calibrate succeeding, declining
\* or failing.
Denied == [NoRun EXCEPT !.ran = TRUE]

EnvResults ==
    {[face_detected |-> f, face_centered |-> c, lighting_ok |-> l] :
        f \in BOOLEAN, c \in BOOLEAN, l \in BOOLEAN}

VerifyRuns ==
    {Denied}
    \cup {[Denied EXCEPT !.granted = TRUE, !.audio = a, !.env = "error"] :
             a \in {"detected", "silent", "error"}}
    \cup {[ran |-> TRUE, granted |-> TRUE, audio |-> a, env |-> "ok",
           face_detected |-> e.face_detected,
           face_centered |-> e.face_detected /\ e.face_centered,
           lighting_ok |-> e.lighting_ok, calibrate |-> k] :
             a \in {"detected", "silent", "error"}, e \in EnvResults,
             k \in {"ok", "declined", "error", "none"}}

\* /api/calibrate is called exactly when a face was detected.
Possible(in) == (in.calibrate = "none") <=> ~(in.env = "ok" /\ in.face_detected)

\* The catch around the environment check: the service did not answer.
ServiceFailed(in) == in.env = "error" \/ in.calibrate = "error"

\* setChecks/setMicrophoneWorking/setProgress up to the end of the microphone
\* test.
AfterMicrophone(v, in) ==
    [v EXCEPT !.verificationStarted = TRUE,
              !.camera = "success",
              !.microphone = IF in.audio = "detected" THEN "success" ELSE "error",
              !.microphoneWorking = (in.audio = "detected"),
              !.progress = 40]

\* The environment check's answer as shown.
AfterEnvironment(v, in) ==
    [v EXCEPT !.lighting = IF in.lighting_ok THEN "success" ELSE "warning",
              !.face = IF ~in.face_detected THEN "error"
                       ELSE IF in.face_centered THEN "success" ELSE "warning",
              !.calibration = @ \/ in.calibrate = "ok",
              !.progress = 85]

\* STRICT VALIDATION: `mic` is the microphoneWorking of the render whose
\* startVerification is running.
StrictValidation(mic, in) == mic /\ in.face_detected /\ in.lighting_ok

\* startVerification of the render that saw state v, meeting `in`.
startVerification(v, in) ==
    IF ~in.granted
    THEN [v EXCEPT !.verificationStarted = TRUE, !.progress = 0,
                   !.camera = "error"]
    ELSE IF ServiceFailed(in)
    THEN [AfterMicrophone(v, in) EXCEPT !.lighting = "error", !.face = "error",
                                        !.progress = 60,
                                        !.verificationStarted = FALSE]
    ELSE IF ~StrictValidation(v.microphoneWorking, in)
    THEN [AfterEnvironment(AfterMicrophone(v, in), in)
             EXCEPT !.verificationStarted = FALSE]
    ELSE [AfterEnvironment(AfterMicrophone(v, in), in)
             EXCEPT !.progress = 100, !.navigating = TRUE]

\* The Start Verification button, shown while !verificationStarted.
StartVerification(in) ==
    /\ ~verify.verificationStarted
    /\ Possible(in)
    /\ verify' = startVerification(verify, in)
    /\ verifyRun' = in
    /\ UNCHANGED <<hookVars, examVars, sessVars, csvVars, overlapPc, reportVars>>

SpecVerify == Init /\ [][\E in \in VerifyRuns : StartVerification(in)]_vars

\* C28: a run whose service calls were answered navigates to the exam exactly
\* when, in that run, the microphone test heard audio, a face was detected and
\* the lighting was adequate.
C28_DecidedByThisRun ==
    (verifyRun.ran /\ verifyRun.granted /\ ~ServiceFailed(verifyRun))
       => (verify.navigating
              <=> (/\ verifyRun.audio = "detected"
                   /\ verifyRun.face_detected
                   /\ verifyRun.lighting_ok))


\* ------------------------------------------------ report page
\* Violation ids in the table.
MaxIds == 3

ViolationIds == 1..MaxIds

\* What one .select('*') can return: null, or rows with distinct ids (id is
\* the table's key).
QueryResults ==
    {NoData}
    \cup UNION {{[isNull |-> FALSE, rows |-> q] :
                    q \in {r \in [1..n -> [id : ViolationIds]] :
                              \A i, k \in 1..n : r[i].id = r[k].id => i = k}} :
                n \in 0..MaxRows}

\* (data || [])
OrEmpty(data) == IF data.isNull THEN <<>> ELSE data.rows

\* A list that takes every row as it comes.
mapSetAppend(m, v) == Append(m, v)

\* allViolationsMap.set(v.id, v): a Map keeps the position of a key's first
\* insertion and the value of its last.
mapSet(m, v) ==
    IF \E i \in 1..Len(m) : m[i].id = v.id
    THEN [i \in 1..Len(m) |-> IF m[i].id = v.id THEN v ELSE m[i]]
    ELSE Append(m, v)

\* [...].forEach(v => { if (v && v.id) allViolationsMap.set(v.id, v) })
RECURSIVE setAll(_, _)
setAll(m, rows) ==
    IF rows = <<>> THEN m ELSE setAll(mapSet(m, Head(rows)), Tail(rows))

\* Array.from(allViolationsMap.values())
assemble(l) ==
    setAll(<<>>, OrEmpty(l.byExam) \o OrEmpty(l.byStudent) \o OrEmpty(l.byName))

\* loadReportData, the violations part.
loadReportData ==
    /\ ~violationsData.loaded
    /\ violationsData' = [loaded |-> TRUE, rows |-> assemble(lookups)]
    /\ UNCHANGED <<hookVars, examVars, sessVars, csvVars, overlapPc,
                   verifyVars, lookups>>

InitReport ==
    /\ csvInput = <<>>
    /\ csvOutput = NotCalled
    /\ overlapPc = "idle"
    /\ verify = VerifyIdle
    /\ verifyRun = NoRun
    /\ lookups \in [byExam : QueryResults, byStudent : QueryResults,
                    byName : QueryResults]
    /\ violationsData = NotLoaded
    /\ IdleApp

SpecReport == InitReport /\ [][loadReportData]_vars

\* Ids returned by at least one of the three lookups.
Returned(l) ==
    {OrEmpty(l.byExam)[i].id : i \in 1..Len(OrEmpty(l.byExam))}
    \cup {OrEmpty(l.byStudent)[i].id : i \in 1..Len(OrEmpty(l.byStudent))}
    \cup {OrEmpty(l.byName)[i].id : i \in 1..Len(OrEmpty(l.byName))}

\* C29: the assembled list holds every id returned by a lookup exactly once,
\* and nothing else.
C29_EachViolationOnce ==
    violationsData.loaded
       => /\ \A id \in Returned(lookups) :
                Cardinality({i \in 1..Len(violationsData.rows) :
                                violationsData.rows[i].id = id}) = 1
          /\ \A i \in 1..Len(violationsData.rows) :
                violationsData.rows[i].id \in Returned(lookups)
          /\ Len(violationsData.rows) = Cardinality(Returned(lookups))

\* A report was assembled from lookups that overlap: the same violation came
\* back by exam and by student id, and another one by name only.
C29_Witness ==
    /\ violationsData.loaded
    /\ Len(violationsData.rows) = 2
    /\ Len(lookups.byExam.rows) = 1 /\ Len(lookups.byStudent.rows) = 1
    /\ lookups.byExam.rows[1].id = lookups.byStudent.rows[1].id
    /\ Len(lookups.byName.rows) = 1
    /\ lookups.byName.rows[1].id # lookups.byExam.rows[1].id


\* ------------------------------------------------ recent warnings
\* The messages of the latest deliveries, newest first.
LatestMessages(hs) ==
    [i \in 1..Min(Len(hs), WarningsShown) |-> DisplayMessage(hs[Len(hs) + 1 - i])]

\* recentWarnings[0], what the Active Alerts card shows.
ActiveAlert == IF recentWarnings = <<>> THEN "" ELSE recentWarnings[1]

\* C30: after the deliveries in `handled`, recentWarnings holds the messages
\* of the min(3, n) latest ones, newest first, and the Active Alert is the
\* message of the latest.
C30_LatestWarnings ==
    /\ recentWarnings = LatestMessages(handled)
    /\ handled # <<>> => ActiveAlert = DisplayMessage(handled[Len(handled)])


TypeOK ==
    /\ mounted \in BOOLEAN /\ enabled \in BOOLEAN
    /\ wsRef \in 0..MaxSockets
    /\ timers \subseteq SockIds
    /\ isConnected \in BOOLEAN
    /\ reconnectAttempts \in Nat
====
